---- MODULE Spec2Model ----
(***************************************************************************)
(* Model of DanbooruTagScraper (src/Danbooru.py): the resumable, rate-     *)
(* limited tag scraper with its ledger file and its checkpoint file.       *)
(*                                                                         *)
(* Text is modelled as a sequence of tokens.  A token is one character     *)
(* (" ", TAB, NL, a letter, a digit) or an atomic word without whitespace  *)
(* (a category label).  strip, split and join are computed on tokens.      *)
(*                                                                         *)
(* A file is <<>> when it does not exist and <<content>> when it does.     *)
(* The content of the ledger file is text; the content of the checkpoint   *)
(* file is <<>> (opened for writing, nothing written yet) or <<p>> (the    *)
(* JSON object {"page": p, "timestamp": ...}; the timestamp is never read).*)
(***************************************************************************)
EXTENDS Integers, Sequences, FiniteSets, TLC

(* ---------------------------- bounds ---------------------------------- *)
\* pages 1..MaxPage-1 may carry records; the server has no data beyond them
MaxPage == 3
\* largest number of records in one response
MaxPageLen == 2

(* ---------------------------- tokens ---------------------------------- *)
TAB == "\t"
NL == "\n"
SPACE == " "
\* the characters str.strip() removes
Whitespace == {SPACE, TAB, NL}

(* --------------------- records sent by the server ---------------------- *)
\* Tag objects of a response.  A field may be missing (dict.get default).
\* A name may carry whitespace around it or be blank; tag names of the server
\* have no tab or newline inside, and none is drawn here.
Records ==
  { [name |-> <<"a">>, post_count |-> 12, category |-> 0],
    [name |-> <<SPACE, "a", SPACE>>, post_count |-> 12, category |-> 1],
    [name |-> <<"b">>, category |-> 2],
    [name |-> <<SPACE>>, post_count |-> 12, category |-> 0],
    [post_count |-> 12, category |-> 0] }

\* a non-empty response body: 1..MaxPageLen records
RECURSIVE SeqsUpTo(_, _)
SeqsUpTo(S, n) ==
  IF n = 0 THEN { <<>> }
  ELSE LET shorter == SeqsUpTo(S, n - 1)
       IN  shorter \cup { Append(s, x) : s \in { t \in shorter : Len(t) = n - 1 }, x \in S }

PageBodies == SeqsUpTo(Records, MaxPageLen) \ { <<>> }

(* ------------------------- string functions ---------------------------- *)
RECURSIVE LStrip(_)
LStrip(s) ==
  IF s = <<>> THEN s
  ELSE IF Head(s) \in Whitespace THEN LStrip(Tail(s)) ELSE s

RECURSIVE RStrip(_)
RStrip(s) ==
  IF s = <<>> THEN s
  ELSE IF s[Len(s)] \in Whitespace THEN RStrip(SubSeq(s, 1, Len(s) - 1)) ELSE s

\* str.strip()
Strip(s) == RStrip(LStrip(s))

\* index of the first occurrence of token c in s, 0 when absent
FirstIndex(s, c) ==
  IF \E i \in 1..Len(s) : s[i] = c
  THEN CHOOSE i \in 1..Len(s) : s[i] = c /\ \A j \in 1..(i - 1) : s[j] # c
  ELSE 0

\* f"{count}": decimal digits of a natural number
Digit(d) == <<"0", "1", "2", "3", "4", "5", "6", "7", "8", "9">>[d + 1]

RECURSIVE Str(_)
Str(n) == IF n < 10 THEN <<Digit(n)>> ELSE Append(Str(n \div 10), Digit(n % 10))

\* "\n".join(lines)
RECURSIVE JoinLines(_)
JoinLines(lines) ==
  IF lines = <<>> THEN <<>>
  ELSE IF Len(lines) = 1 THEN lines[1]
  ELSE lines[1] \o <<NL>> \o JoinLines(Tail(lines))

\* iteration over a text file: each line keeps its trailing newline
RECURSIVE ReadLines(_)
ReadLines(text) ==
  IF text = <<>> THEN <<>>
  ELSE LET n == FirstIndex(text, NL)
       IN  IF n = 0 THEN <<text>>
           ELSE <<SubSeq(text, 1, n)>> \o ReadLines(SubSeq(text, n + 1, Len(text)))

\* variant: the whole line is taken as the key
KeyOf_WholeLine(line) == line

\* line.split("\t")[0] if "\t" in line else line
KeyOf(line) ==
  LET n == FirstIndex(line, TAB)
  IN  IF n = 0 THEN line ELSE SubSeq(line, 1, n - 1)

\* the elements of a sequence
Range(s) == { s[i] : i \in 1..Len(s) }

(* ----------------------- _load_progress -------------------------------- *)
\* [line.strip() for line in f if line.strip()]
LoadTags(file) ==
  IF file = <<>> THEN <<>>
  ELSE LET raw == ReadLines(file[1])
           stripped == [i \in 1..Len(raw) |-> Strip(raw[i])]
       IN  SelectSeq(stripped, LAMBDA l : l # <<>>)

\* variant: the loaded lines themselves are taken as the seen keys
LoadSeen_Lines(lines) == Range(lines)

\* {key of line for line in self.tags}
LoadSeen(lines) == { KeyOf(l) : l \in Range(lines) }

\* variant: the checkpoint file is not consulted
LoadPage_Ignored(file) == 1

\* json.load(f).get("page", 1) when the checkpoint file exists, else page 1
LoadPage(file) == IF file = <<>> THEN 1 ELSE file[1][1]

\* json.load raises on a checkpoint file that was opened for writing and
\* never written
Unreadable(file) == file # <<>> /\ file[1] = <<>>

(* ------------------------ record projection ---------------------------- *)
\* variant: the copyright label sits at code 2
TAG_CATEGORIES_Shifted ==
  (0 :> "general") @@ (1 :> "artist") @@ (2 :> "copyright")
    @@ (4 :> "character") @@ (5 :> "meta")

TAG_CATEGORIES ==
  (0 :> "general") @@ (1 :> "artist") @@ (3 :> "copyright")
    @@ (4 :> "character") @@ (5 :> "meta")

\* tag.get(field, default)
Get(tag, field, default) == IF field \in DOMAIN tag THEN tag[field] ELSE default

\* tag.get("name", "").strip()
NameOf(tag) == Strip(Get(tag, "name", <<>>))

\* TAG_CATEGORIES.get(tag.get("category", -1), "unknown")
CategoryLabel(tag) ==
  LET c == Get(tag, "category", -1)
  IN  IF c \in DOMAIN TAG_CATEGORIES THEN TAG_CATEGORIES[c] ELSE "unknown"

\* the line appended for an accepted record
Project(tag, meta) ==
  IF meta
  THEN NameOf(tag) \o <<TAB>> \o Str(Get(tag, "post_count", 0)) \o <<TAB>>
         \o <<CategoryLabel(tag)>>
  ELSE NameOf(tag)

\* variant: no membership test against the seen set
ShouldSkip_NoDedup(name, seenKeys) == name = <<>>

\* variant: no test for an empty name
ShouldSkip_NoBlankTest(name, seenKeys) == name \in seenKeys

\* if not name or name in self.seen: continue
ShouldSkip(name, seenKeys) == name = <<>> \/ name \in seenKeys

(* ------------------------------ state ---------------------------------- *)
VARIABLES
  ledger,            \* the file self.filename
  statefile,         \* the file self.statefile (filename + ".state.json")
  pc,                \* position of the process in __init__/run
  include_metadata,  \* self.include_metadata
  tags,              \* self.tags
  seen,              \* self.seen
  page,              \* self.page
  data,              \* resp.json() of the page being processed
  idx,               \* position of the for loop in data
  outcome,           \* how the try block was left / how the process ended
  lastReq,           \* page number of the most recent request of this run, 0 if none
  lastStatus,        \* answer to the most recent request of this run; while it
                     \* is awaited: "retry" if it repeats a 429, else "pending"
  firstReq,          \* page number of the first request of this run, 0 if none
  startCkpt,         \* the checkpoint file as found when this run started
  loaded,            \* the lines loaded from the ledger file when this run started
  exitTags,          \* self.tags at the moment the try block was left
  exitCkpt,          \* the checkpoint file at the moment the try block was left
  lastRec,           \* what the loop did with the most recent record
  expected,          \* loaded lines plus first occurrences of new keys received
  flushed,           \* pages saved by a run loop since the last cleanup
  pageStart,         \* self.tags when the current page was received
  acked,             \* the set of lines appended for pages before the page of
                     \* the checkpoint last written by a run loop, over all
                     \* runs since the last cleanup
  persisted          \* the lines written by the last completed ledger write of
                     \* the latest process, <<>> if it completed none

disk == <<ledger, statefile>>
memory == <<include_metadata, tags, seen, page, data, idx>>
history == <<outcome, lastReq, lastStatus, firstReq, startCkpt, loaded,
             exitTags, exitCkpt, lastRec, expected, flushed, pageStart, acked,
             persisted>>
vars == <<ledger, statefile, pc, include_metadata, tags, seen, page, data, idx,
          outcome, lastReq, lastStatus, firstReq, startCkpt, loaded,
          exitTags, exitCkpt, lastRec, expected, flushed, pageStart, acked,
          persisted>>

\* positions inside the try block of run()
LoopPcs == {"fetch", "await", "backoff", "process", "ledger_open",
            "ledger_write", "state_open", "state_write", "advance", "sleep"}
\* positions at which a process exists
LivePcs == LoopPcs \cup {"finally"}

\* the lines a page adds to a ledger, stated by first occurrence of each key
RECURSIVE Accumulate(_, _, _)
Accumulate(lines, body, meta) ==
  IF body = <<>> THEN lines
  ELSE LET k == NameOf(Head(body))
       IN  IF k = <<>> \/ \E i \in 1..Len(lines) : KeyOf(lines[i]) = k
           THEN Accumulate(lines, Tail(body), meta)
           ELSE Accumulate(Append(lines, Project(Head(body), meta)), Tail(body), meta)

Init ==
  /\ ledger = <<>>
  /\ statefile = <<>>
  /\ pc = "idle"
  /\ include_metadata = FALSE
  /\ tags = <<>>
  /\ seen = {}
  /\ page = 1
  /\ data = <<>>
  /\ idx = 1
  /\ outcome = "none"
  /\ lastReq = 0
  /\ lastStatus = "none"
  /\ firstReq = 0
  /\ startCkpt = <<>>
  /\ loaded = <<>>
  /\ exitTags = <<>>
  /\ exitCkpt = <<>>
  /\ lastRec = "none"
  /\ expected = <<>>
  /\ flushed = {}
  /\ pageStart = <<>>
  /\ acked = {}
  /\ persisted = <<>>


(* ------------------- __init__ and entry into run() --------------------- *)
\* DanbooruTagScraper(...) followed by run(): _load_progress, then the top
\* of the loop
Start(meta) ==
  /\ pc \in {"idle", "ended"}
  /\ ~Unreadable(statefile)
  /\ include_metadata' = meta
  /\ tags' = LoadTags(ledger)
  /\ seen' = LoadSeen(tags')
  /\ page' = LoadPage(statefile)
  /\ data' = <<>>
  /\ idx' = 1
  /\ pc' = "fetch"
  /\ outcome' = "none"
  /\ lastReq' = 0
  /\ lastStatus' = "none"
  /\ firstReq' = 0
  /\ startCkpt' = statefile
  /\ loaded' = tags'
  /\ exitTags' = <<>>
  /\ exitCkpt' = <<>>
  /\ lastRec' = "none"
  /\ expected' = tags'
  /\ pageStart' = tags'
  /\ persisted' = <<>>
  /\ UNCHANGED <<ledger, statefile, flushed, acked>>

\* the memory of a process that no longer exists
NoProcess(how) ==
  /\ pc' = "idle"
  /\ outcome' = how
  /\ include_metadata' = FALSE
  /\ tags' = <<>>
  /\ seen' = {}
  /\ page' = 1
  /\ data' = <<>>
  /\ idx' = 1
  /\ lastReq' = 0
  /\ lastStatus' = "none"
  /\ firstReq' = 0
  /\ startCkpt' = <<>>
  /\ loaded' = <<>>
  /\ exitTags' = <<>>
  /\ exitCkpt' = <<>>
  /\ lastRec' = "none"
  /\ expected' = <<>>
  /\ pageStart' = <<>>

\* the constructor raises: json.load on a checkpoint file without content
StartFail ==
  /\ pc \in {"idle", "ended"}
  /\ Unreadable(statefile)
  /\ outcome # "loaderror"
  /\ NoProcess("loaderror")
  /\ UNCHANGED <<ledger, statefile, flushed, acked, persisted>>

(* ------------------------------ run() ---------------------------------- *)
\* self.session.get(..., params with "page": self.page)
SendRequest ==
  /\ pc = "fetch"
  /\ pc' = "await"
  /\ lastReq' = page
  /\ lastStatus' = IF lastStatus = "429" THEN "retry" ELSE "pending"
  /\ firstReq' = IF firstReq = 0 THEN page ELSE firstReq
  /\ UNCHANGED <<disk, memory, outcome, startCkpt, loaded, exitTags, exitCkpt,
                 lastRec, expected, flushed, pageStart, acked,
                 persisted>>

\* variant: a rate-limited page is given up and the next one requested
Recv429_SkipsPage ==
  /\ pc = "await"
  /\ pc' = "backoff"
  /\ lastStatus' = "429"
  /\ page' = IF page < MaxPage THEN page + 1 ELSE page
  /\ UNCHANGED <<disk, include_metadata, tags, seen, data, idx, outcome, lastReq,
                 firstReq, startCkpt, loaded, exitTags, exitCkpt, lastRec,
                 expected, flushed, pageStart, acked,
                 persisted>>

\* variant: the rate-limit branch saves a checkpoint
Recv429_Saves ==
  /\ pc = "await"
  /\ pc' = "backoff"
  /\ lastStatus' = "429"
  /\ statefile' = << <<page>> >>
  /\ UNCHANGED <<ledger, memory, outcome, lastReq, firstReq, startCkpt, loaded,
                 exitTags, exitCkpt, lastRec, expected, flushed, pageStart, acked,
                 persisted>>

\* resp.status_code == 429
Recv429 ==
  /\ pc = "await"
  /\ pc' = "backoff"
  /\ lastStatus' = "429"
  /\ UNCHANGED <<disk, memory, outcome, lastReq, firstReq, startCkpt, loaded,
                 exitTags, exitCkpt, lastRec, expected, flushed, pageStart, acked,
                 persisted>>

\* time.sleep(self.delay * 4); continue
Backoff ==
  /\ pc = "backoff"
  /\ pc' = "fetch"
  /\ UNCHANGED <<disk, memory, history>>

\* leaving the try block: where control goes and what is remembered of it
LeaveLoop(how, next) ==
  /\ pc' = next
  /\ outcome' = how
  /\ exitTags' = tags
  /\ exitCkpt' = statefile

\* session.get raises, or resp.raise_for_status() raises: not caught by run()
RecvError ==
  /\ pc = "await"
  /\ LeaveLoop("error", "finally")
  /\ lastStatus' = "error"
  /\ UNCHANGED <<disk, memory, lastReq, firstReq, startCkpt, loaded, lastRec,
                 expected, flushed, pageStart, acked,
                 persisted>>

\* variant: an empty page does not end the loop
RecvEmpty_Continues ==
  /\ pc = "await"
  /\ pc' = "sleep"
  /\ lastStatus' = "empty"
  /\ UNCHANGED <<disk, memory, outcome, lastReq, firstReq, startCkpt, loaded,
                 exitTags, exitCkpt, lastRec, expected, flushed, pageStart, acked,
                 persisted>>

\* variant: an empty page is handled like a rate limit
RecvEmpty_Retries ==
  /\ pc = "await"
  /\ pc' = "backoff"
  /\ lastStatus' = "empty"
  /\ UNCHANGED <<disk, memory, outcome, lastReq, firstReq, startCkpt, loaded,
                 exitTags, exitCkpt, lastRec, expected, flushed, pageStart, acked,
                 persisted>>

\* if not data: break
RecvEmpty ==
  /\ pc = "await"
  /\ LeaveLoop("exhausted", "finally")
  /\ lastStatus' = "empty"
  /\ UNCHANGED <<disk, memory, lastReq, firstReq, startCkpt, loaded, lastRec,
                 expected, flushed, pageStart, acked,
                 persisted>>

\* data = resp.json(), non-empty
RecvData(body) ==
  /\ pc = "await"
  /\ page < MaxPage
  /\ pc' = "process"
  /\ data' = body
  /\ idx' = 1
  /\ lastStatus' = "data"
  /\ pageStart' = tags
  /\ expected' = Accumulate(expected, body, include_metadata)
  /\ UNCHANGED <<disk, include_metadata, tags, seen, page, outcome, lastReq,
                 firstReq, startCkpt, loaded, exitTags, exitCkpt, lastRec, flushed, acked, persisted>>

\* variant: a new line is put in front of the list
ProcessRecord_Prepends ==
  /\ pc = "process"
  /\ LET tag == data[idx]
         name == NameOf(tag)
     IN  IF ShouldSkip(name, seen)
         THEN /\ UNCHANGED <<tags, seen>>
              /\ lastRec' = IF name = <<>> THEN "blank" ELSE "dup"
         ELSE /\ tags' = <<Project(tag, include_metadata)>> \o tags
              /\ seen' = seen \cup {name}
              /\ lastRec' = "added"
  /\ idx' = idx + 1
  /\ pc' = IF idx = Len(data) THEN "ledger_open" ELSE "process"
  /\ UNCHANGED <<disk, include_metadata, page, data, outcome, lastReq, lastStatus,
                 firstReq, startCkpt, loaded, exitTags, exitCkpt, expected,
                 flushed, pageStart, acked, persisted>>

\* one iteration of "for tag in data"
ProcessRecord ==
  /\ pc = "process"
  /\ LET tag == data[idx]
         name == NameOf(tag)
     IN  IF ShouldSkip(name, seen)
         THEN /\ UNCHANGED <<tags, seen>>
              /\ lastRec' = IF name = <<>> THEN "blank" ELSE "dup"
         ELSE /\ tags' = Append(tags, Project(tag, include_metadata))
              /\ seen' = seen \cup {name}
              /\ lastRec' = "added"
  /\ idx' = idx + 1
  /\ pc' = IF idx = Len(data) THEN "ledger_open" ELSE "process"
  /\ UNCHANGED <<disk, include_metadata, page, data, outcome, lastReq, lastStatus,
                 firstReq, startCkpt, loaded, exitTags, exitCkpt, expected, flushed, pageStart, acked,
                 persisted>>

(* -------------------------- _save_progress ----------------------------- *)
\* open(self.filename, "w"): the file is created or truncated
OpenLedger ==
  /\ pc = "ledger_open"
  /\ ledger' = << <<>> >>
  /\ pc' = "ledger_write"
  /\ data' = <<>>
  /\ idx' = 1
  /\ lastRec' = "none"
  /\ UNCHANGED <<statefile, include_metadata, tags, seen, page, outcome, lastReq,
                 lastStatus, firstReq, startCkpt, loaded, exitTags, exitCkpt,
                 expected, flushed, pageStart, acked,
                 persisted>>

\* f.write("\n".join(self.tags)) and close
WriteLedger ==
  /\ pc = "ledger_write"
  /\ ledger' = << JoinLines(tags) >>
  /\ pc' = "state_open"
  /\ persisted' = tags
  /\ UNCHANGED <<statefile, memory, outcome, lastReq, lastStatus, firstReq,
                 startCkpt, loaded, exitTags, exitCkpt, lastRec, expected,
                 flushed, pageStart, acked>>

\* open(self.statefile, "w")
OpenState ==
  /\ pc = "state_open"
  /\ statefile' = << <<>> >>
  /\ pc' = "state_write"
  /\ UNCHANGED <<ledger, memory, history>>

\* the page number _save_progress records
CheckpointPage(p) == p

\* json.dump({"page": self.page, ...}, f) and close; then back to the caller:
\* line 101 of the loop, or the finally clause after the except handler
WriteState ==
  /\ pc = "state_write"
  /\ statefile' = << <<CheckpointPage(page)>> >>
  /\ pc' = IF outcome = "interrupted" THEN "finally" ELSE "advance"
  /\ acked' = IF outcome = "none"
              THEN acked \cup (Range(pageStart) \ Range(loaded))
              ELSE acked
  /\ flushed' = IF outcome = "none" THEN flushed \cup {page} ELSE flushed
  /\ UNCHANGED <<ledger, memory, outcome, lastReq, lastStatus, firstReq,
                 startCkpt, loaded, exitTags, exitCkpt, lastRec, expected,
                 pageStart, persisted>>

\* variant: the page number is not advanced
Advance_Forgotten ==
  /\ pc = "advance"
  /\ page' = page
  /\ pc' = "sleep"
  /\ UNCHANGED <<disk, include_metadata, tags, seen, data, idx, history>>

\* self.page += 1
Advance ==
  /\ pc = "advance"
  /\ page' = page + 1
  /\ pc' = "sleep"
  /\ UNCHANGED <<disk, include_metadata, tags, seen, data, idx, history>>

\* time.sleep(self.delay)
Sleep ==
  /\ pc = "sleep"
  /\ pc' = "fetch"
  /\ UNCHANGED <<disk, memory, history>>

\* variant: the handler does not save
HandlerEntry_NoSave == "finally"

\* where the except KeyboardInterrupt handler starts
HandlerEntry == "ledger_open"

\* KeyboardInterrupt inside the try block: the handler calls _save_progress
Interrupt ==
  /\ pc \in LoopPcs
  /\ outcome = "none"
  /\ LeaveLoop("interrupted", HandlerEntry)
  /\ data' = <<>>
  /\ idx' = 1
  /\ UNCHANGED <<disk, include_metadata, tags, seen, page, lastReq, lastStatus,
                 firstReq, startCkpt, loaded, lastRec, expected, flushed, pageStart, acked,
                 persisted>>

\* variant: the finally clause leaves the checkpoint file alone
RemoveIfExists_Keeps(file) == file

\* if os.path.exists(self.statefile): os.remove(self.statefile)
RemoveIfExists(file) == <<>>

\* the finally clause
Cleanup ==
  /\ pc = "finally"
  /\ statefile' = RemoveIfExists(statefile)
  /\ pc' = "ended"
  /\ flushed' = {}
  /\ acked' = {}
  /\ UNCHANGED <<ledger, memory, outcome, lastReq, lastStatus, firstReq,
                 startCkpt, loaded, exitTags, exitCkpt, lastRec, expected,
                 pageStart, persisted>>

\* the process is killed: its memory is lost, the files stay as they are
Kill ==
  /\ pc \in LivePcs
  /\ NoProcess("killed")
  /\ UNCHANGED <<ledger, statefile, flushed, acked, persisted>>

Next ==
  \/ \E meta \in BOOLEAN : Start(meta)
  \/ StartFail
  \/ SendRequest
  \/ Recv429
  \/ Backoff
  \/ RecvError
  \/ RecvEmpty
  \/ \E body \in PageBodies : RecvData(body)
  \/ ProcessRecord
  \/ OpenLedger
  \/ WriteLedger
  \/ OpenState
  \/ WriteState
  \/ Advance
  \/ Sleep
  \/ Interrupt
  \/ Cleanup
  \/ Kill

Spec == Init /\ [][Next]_vars

(* ------------- runs without interrupt, kill or transport error --------- *)
\* the steps the single thread of run() takes by itself
ProgramStep ==
  \/ SendRequest
  \/ Backoff
  \/ ProcessRecord
  \/ OpenLedger
  \/ WriteLedger
  \/ OpenState
  \/ WriteState
  \/ Advance
  \/ Sleep
  \/ Cleanup

\* an answer other than 429 and other than an error
OtherAnswer == RecvEmpty \/ \E body \in PageBodies : RecvData(body)

NextLive ==
  \/ \E meta \in BOOLEAN : Start(meta)
  \/ ProgramStep
  \/ Recv429
  \/ OtherAnswer

\* the thread keeps running while it is not blocked; every request is
\* answered, and not by 429 forever
SpecLive ==
  /\ Init
  /\ [][NextLive]_vars
  /\ WF_vars(ProgramStep)
  /\ SF_vars(OtherAnswer)

(* --------------------------- scrape_all_tags --------------------------- *)
\* positions inside the loop of scrape_all_tags
AllPcs == {"all_fetch", "all_await", "all_process", "all_open", "all_write",
           "all_advance", "all_sleep"}

\* variant: the function resumes from the files like the class does
AllStart_Resumes(meta) ==
  /\ pc \in {"idle", "ended"}
  /\ ~Unreadable(statefile)
  /\ include_metadata' = meta
  /\ tags' = LoadTags(ledger)
  /\ seen' = LoadSeen(tags')
  /\ page' = LoadPage(statefile)
  /\ data' = <<>>
  /\ idx' = 1
  /\ pc' = "all_fetch"
  /\ outcome' = "none"
  /\ lastReq' = 0
  /\ lastStatus' = "none"
  /\ firstReq' = 0
  /\ startCkpt' = statefile
  /\ loaded' = <<>>
  /\ exitTags' = <<>>
  /\ exitCkpt' = <<>>
  /\ lastRec' = "none"
  /\ expected' = <<>>
  /\ pageStart' = <<>>
  /\ persisted' = <<>>
  /\ UNCHANGED <<ledger, statefile, flushed, acked>>

\* entry: tags = [], seen = set(), page = 1; no file is read
AllStart(meta) ==
  /\ pc \in {"idle", "ended"}
  /\ include_metadata' = meta
  /\ tags' = <<>>
  /\ seen' = {}
  /\ page' = 1
  /\ data' = <<>>
  /\ idx' = 1
  /\ pc' = "all_fetch"
  /\ outcome' = "none"
  /\ lastReq' = 0
  /\ lastStatus' = "none"
  /\ firstReq' = 0
  /\ startCkpt' = statefile
  /\ loaded' = <<>>
  /\ exitTags' = <<>>
  /\ exitCkpt' = <<>>
  /\ lastRec' = "none"
  /\ expected' = <<>>
  /\ pageStart' = <<>>
  /\ persisted' = <<>>
  /\ UNCHANGED <<ledger, statefile, flushed, acked>>

\* session.get(..., params with "page": page)
AllSend ==
  /\ pc = "all_fetch"
  /\ pc' = "all_await"
  /\ lastReq' = page
  /\ lastStatus' = "pending"
  /\ firstReq' = IF firstReq = 0 THEN page ELSE firstReq
  /\ UNCHANGED <<disk, memory, outcome, startCkpt, loaded, exitTags, exitCkpt,
                 lastRec, expected, flushed, pageStart, acked, persisted>>

\* session.get or r.raise_for_status() raises (status 429 included):
\* except Exception: break
AllRecvFail(status) ==
  /\ pc = "all_await"
  /\ LeaveLoop("all_failed", "ended")
  /\ lastStatus' = status
  /\ UNCHANGED <<disk, memory, lastReq, firstReq, startCkpt, loaded, lastRec,
                 expected, flushed, pageStart, acked, persisted>>

\* if not data: break
AllRecvEmpty ==
  /\ pc = "all_await"
  /\ LeaveLoop("all_exhausted", "ended")
  /\ lastStatus' = "empty"
  /\ UNCHANGED <<disk, memory, lastReq, firstReq, startCkpt, loaded, lastRec,
                 expected, flushed, pageStart, acked, persisted>>

\* data = r.json(), non-empty
AllRecvData(body) ==
  /\ pc = "all_await"
  /\ page < MaxPage
  /\ pc' = "all_process"
  /\ data' = body
  /\ idx' = 1
  /\ lastStatus' = "data"
  /\ pageStart' = tags
  /\ expected' = Accumulate(expected, body, include_metadata)
  /\ UNCHANGED <<disk, include_metadata, tags, seen, page, outcome, lastReq,
                 firstReq, startCkpt, loaded, exitTags, exitCkpt, lastRec,
                 flushed, acked, persisted>>

\* one iteration of "for tag in data"
AllProcessRecord ==
  /\ pc = "all_process"
  /\ LET tag == data[idx]
         name == NameOf(tag)
     IN  IF ShouldSkip(name, seen)
         THEN /\ UNCHANGED <<tags, seen>>
              /\ lastRec' = IF name = <<>> THEN "blank" ELSE "dup"
         ELSE /\ tags' = Append(tags, Project(tag, include_metadata))
              /\ seen' = seen \cup {name}
              /\ lastRec' = "added"
  /\ idx' = idx + 1
  /\ pc' = IF idx = Len(data) THEN "all_open" ELSE "all_process"
  /\ UNCHANGED <<disk, include_metadata, page, data, outcome, lastReq, lastStatus,
                 firstReq, startCkpt, loaded, exitTags, exitCkpt, expected,
                 flushed, pageStart, acked, persisted>>

\* open(filename, "w")
AllOpenLedger ==
  /\ pc = "all_open"
  /\ ledger' = << <<>> >>
  /\ pc' = "all_write"
  /\ data' = <<>>
  /\ idx' = 1
  /\ lastRec' = "none"
  /\ UNCHANGED <<statefile, include_metadata, tags, seen, page, outcome, lastReq,
                 lastStatus, firstReq, startCkpt, loaded, exitTags, exitCkpt,
                 expected, flushed, pageStart, acked, persisted>>

\* f.write("\n".join(tags)) and close
AllWriteLedger ==
  /\ pc = "all_write"
  /\ ledger' = << JoinLines(tags) >>
  /\ pc' = "all_advance"
  /\ persisted' = tags
  /\ UNCHANGED <<statefile, memory, outcome, lastReq, lastStatus, firstReq,
                 startCkpt, loaded, exitTags, exitCkpt, lastRec, expected,
                 flushed, pageStart, acked>>

\* page += 1
AllAdvance ==
  /\ pc = "all_advance"
  /\ page' = page + 1
  /\ pc' = "all_sleep"
  /\ UNCHANGED <<disk, include_metadata, tags, seen, data, idx, history>>

\* time.sleep(delay)
AllSleep ==
  /\ pc = "all_sleep"
  /\ pc' = "all_fetch"
  /\ UNCHANGED <<disk, memory, history>>

\* the process is killed, or a KeyboardInterrupt (no Exception) ends it
AllAbort ==
  /\ pc \in AllPcs
  /\ NoProcess("killed")
  /\ UNCHANGED <<ledger, statefile, flushed, acked, persisted>>

\* both entry points of main() on the same target path
NextAll ==
  \/ Next
  \/ \E meta \in BOOLEAN : AllStart(meta)
  \/ AllSend
  \/ \E status \in {"429", "error"} : AllRecvFail(status)
  \/ AllRecvEmpty
  \/ \E body \in PageBodies : AllRecvData(body)
  \/ AllProcessRecord
  \/ AllOpenLedger
  \/ AllWriteLedger
  \/ AllAdvance
  \/ AllSleep
  \/ AllAbort

SpecAll == Init /\ [][NextAll]_vars

(* ------------- record projection on its own: all category codes -------- *)
\* category codes a record may carry: the five of the table and others
ProjCodes == -1..6
ProjNames == { <<"a">>, <<SPACE, "b">> }

\* tag objects with and without post_count and category
ProjRecords ==
  [name : ProjNames, post_count : {12}, category : ProjCodes]
    \cup [name : ProjNames, category : ProjCodes]
    \cup [name : ProjNames, post_count : {7}]
    \cup [name : ProjNames]

ProjBodies == SeqsUpTo(ProjRecords, MaxPageLen) \ { <<>> }

\* a fresh run on an empty directory that has just received its first page
InitProj ==
  /\ ledger = <<>>
  /\ statefile = <<>>
  /\ pc = "process"
  /\ include_metadata \in BOOLEAN
  /\ tags = <<>>
  /\ seen = {}
  /\ page = 1
  /\ data \in ProjBodies
  /\ idx = 1
  /\ outcome = "none"
  /\ lastReq = 1
  /\ lastStatus = "data"
  /\ firstReq = 1
  /\ startCkpt = <<>>
  /\ loaded = <<>>
  /\ exitTags = <<>>
  /\ exitCkpt = <<>>
  /\ lastRec = "none"
  /\ expected = Accumulate(<<>>, data, include_metadata)
  /\ flushed = {}
  /\ pageStart = <<>>
  /\ acked = {}
  /\ persisted = <<>>

\* the for loop over the records of that page
NextProj == ProcessRecord

SpecProj == InitProj /\ [][NextProj]_vars

TypeOK ==
  /\ pc \in LivePcs \cup {"idle", "ended"}
  /\ page \in 1..MaxPage
  /\ idx \in 1..(MaxPageLen + 1)
  /\ Len(tags) <= 2
  /\ Cardinality(seen) <= 2


(* ------------------------------ claims --------------------------------- *)
\* a process exists, or has returned from run() and its object is still there
HasRun == pc \in LivePcs \cup {"ended"}

\* positions of _save_progress
SavePcs == {"ledger_open", "ledger_write", "state_open", "state_write"}

NoDupKeys(lines) ==
  \A i, j \in 1..Len(lines) : KeyOf(lines[i]) = KeyOf(lines[j]) => i = j

IsPrefix(s, t) == Len(s) <= Len(t) /\ SubSeq(t, 1, Len(s)) = s

\* a step of the for loop over the records of a page
RecordStep == pc = "process" /\ idx' = idx + 1

\* C1: once page P has been answered with records, processed and saved, the
\* checkpoint file records P+1, and as long as that checkpoint is kept (the
\* process is killed and a new run started) page P is not requested again.
C1_CheckpointRecordsNextPage ==
  /\ pc = "advance" => statefile = << <<page + 1>> >>
  /\ pc = "await" => lastReq \notin flushed

\* C2: when a fetch fails with an error other than 429, run() ends by that
\* error and a checkpoint file that existed before the failing fetch is still
\* there, unchanged, after run() has exited.
C2_CheckpointRetainedOnError ==
  (pc = "ended" /\ outcome = "error" /\ exitCkpt # <<>>) => statefile = exitCkpt

\* C3: whenever run() has ended with its finally clause executed (after an
\* empty page, a handled KeyboardInterrupt or an error that propagates) the
\* checkpoint file does not exist.
C3_NoCheckpointAfterCleanup ==
  pc = "ended" => statefile = <<>>

C3_Witness ==
  /\ pc = "ended"
  /\ outcome = "error"
  /\ exitCkpt # <<>>
  /\ statefile = <<>>

\* C4: an empty successful response ends the run without a further request;
\* at that end the checkpoint file is absent and the ledger file holds exactly
\* the lines loaded at start followed by one line per distinct non-blank new
\* key received, in first-occurrence order.
C4_ExhaustedEnd ==
  /\ lastStatus = "empty" => (pc \in {"finally", "ended"} /\ outcome = "exhausted")
  /\ (pc = "ended" /\ outcome = "exhausted") =>
       /\ statefile = <<>>
       /\ IsPrefix(loaded, expected)
       /\ LoadTags(ledger) = expected

C4_Witness ==
  /\ pc = "ended"
  /\ outcome = "exhausted"
  /\ lastReq = MaxPage
  /\ Len(loaded) = 1
  /\ Len(expected) = 2
  /\ ledger = << JoinLines(expected) >>

\* C5: a run started on a ledger file of N lines and a checkpoint file holding
\* page P requests page P first, keeps its first N lines as loaded, and never
\* appends a line whose key is the key of one of those N lines.
C5_Resume ==
  HasRun =>
    /\ \A P \in 1..MaxPage :
         (startCkpt = << <<P>> >> /\ firstReq # 0) => firstReq = P
    /\ IsPrefix(loaded, tags)
    /\ \A i \in (Len(loaded) + 1)..Len(tags) : KeyOf(tags[i]) \notin LoadSeen(loaded)

C5_Witness ==
  /\ pc = "ledger_open"
  /\ startCkpt = << <<2>> >>
  /\ firstReq = 2
  /\ Len(loaded) = 1
  /\ Len(tags) = 2
  /\ \E i \in 1..Len(data) : NameOf(data[i]) \in LoadSeen(loaded)

\* C6: after a 429 answer to the request for page P the page number stays P
\* and the next request of the run is again for page P, however many 429
\* answers follow one another.
C6_RetrySamePage ==
  [][(lastStatus = "429" /\ pc \in {"backoff", "fetch"}) =>
       /\ pc' \in LoopPcs => page' = page
       /\ pc' = "await" => (lastReq' = lastReq /\ lastReq' = page)]_vars

C6_Witness ==
  /\ pc = "backoff"
  /\ lastStatus = "429"
  /\ lastReq = 2
  /\ firstReq = 1

\* C7: no two ledger lines share a key, in memory and in the ledger file, and
\* a fetched record whose trimmed name is already in the seen set leaves the
\* ledger and the seen set as they are.
C7_KeyUniqueness ==
  /\ [](NoDupKeys(tags) /\ NoDupKeys(LoadTags(ledger)))
  /\ [][(RecordStep /\ NameOf(data[idx]) \in seen) =>
          (tags' = tags /\ seen' = seen)]_vars

C7_Witness ==
  /\ pc = "ledger_open"
  /\ lastRec = "dup"
  /\ Len(data) = 2
  /\ NameOf(data[1]) = NameOf(data[2])
  /\ Get(data[1], "name", <<>>) # Get(data[2], "name", <<>>)
  /\ Len(tags) = 2

\* C8: after a KeyboardInterrupt inside the loop the handler saves, so that
\* the ledger file equals the in-memory ledger of the moment of interruption;
\* no request follows, and the cleanup runs.
C8_InterruptSaves ==
  /\ outcome = "interrupted" => pc \in SavePcs \cup {"finally", "ended"}
  /\ (outcome = "interrupted" /\ pc \in {"finally", "ended"}) =>
       (tags = exitTags /\ ledger = << JoinLines(exitTags) >>)
  /\ (outcome = "interrupted" /\ pc = "ended") => statefile = <<>>

C8_Witness ==
  /\ pc = "ended"
  /\ outcome = "interrupted"
  /\ lastStatus = "data"
  /\ Len(exitTags) = 1
  /\ Len(expected) = 2
  /\ ledger = << JoinLines(exitTags) >>

\* C9: writing the in-memory ledger of a run with _save_progress and loading
\* it with _load_progress gives back the same sequence of lines and the same
\* seen set.
C9_RoundTrip ==
  HasRun =>
    LET reloaded == LoadTags(<< JoinLines(tags) >>)
    IN  reloaded = tags /\ LoadSeen(reloaded) = seen

C9_Witness ==
  /\ pc = "fetch"
  /\ lastReq = 0
  /\ ledger = << JoinLines(tags) >>
  /\ Len(tags) = 2
  /\ TAB \in Range(tags[1])
  /\ TAB \notin Range(tags[2])

\* C10: a record whose name is empty after trimming adds no line, leaves the
\* seen set alone and raises nothing, the records after it are processed, and
\* no ledger line has an empty key.
C10_BlankSkipped ==
  /\ [](\A i \in 1..Len(tags) : KeyOf(tags[i]) # <<>>)
  /\ [](\A l \in Range(LoadTags(ledger)) : KeyOf(l) # <<>>)
  /\ [][(RecordStep /\ NameOf(data[idx]) = <<>>) =>
          /\ tags' = tags
          /\ seen' = seen
          /\ outcome' = outcome
          /\ pc' = IF idx < Len(data) THEN "process" ELSE "ledger_open"]_vars

C10_Witness ==
  /\ pc = "ledger_open"
  /\ Len(data) = 2
  /\ NameOf(data[1]) = <<>>
  /\ lastRec = "added"
  /\ Len(tags) = 1


\* the label the table gives a record
ClaimLabel(tag) ==
  IF "category" \notin DOMAIN tag THEN "unknown"
  ELSE CASE tag.category = 0 -> "general"
         [] tag.category = 1 -> "artist"
         [] tag.category = 3 -> "copyright"
         [] tag.category = 4 -> "character"
         [] tag.category = 5 -> "meta"
         [] OTHER -> "unknown"

\* C11: the line appended for an accepted record is the trimmed key alone
\* without metadata and key TAB count TAB label with it, the label being
\* general/artist/copyright/character/meta for codes 0/1/3/4/5 and "unknown"
\* for any other or missing code; the flag does not change, so the lines a run
\* appends all have the same shape.
C11_Projection ==
  /\ [][(RecordStep /\ ~ShouldSkip(NameOf(data[idx]), seen)) =>
          /\ include_metadata' = include_metadata
          /\ tags' = Append(tags,
               IF include_metadata
               THEN Strip(data[idx].name) \o <<TAB>>
                      \o Str(Get(data[idx], "post_count", 0)) \o <<TAB>>
                      \o <<ClaimLabel(data[idx])>>
               ELSE Strip(data[idx].name))]_vars
  /\ [](\A i \in (Len(loaded) + 1)..Len(tags) :
          (TAB \in Range(tags[i])) <=> include_metadata)

C11_Witness ==
  /\ pc = "ledger_open"
  /\ include_metadata
  /\ Len(tags) = 2
  /\ Get(data[1], "category", -1) = 3
  /\ Get(data[2], "category", -1) = 2
  /\ tags[1][Len(tags[1])] = "copyright"
  /\ tags[2][Len(tags[2])] = "unknown"


\* scrape_all_tags is running or has returned
InAll == pc \in AllPcs \/ (pc = "ended" /\ outcome \in {"all_exhausted", "all_failed"})

\* C12: scrape_all_tags starts with an empty in-memory ledger and requests
\* page 1 first whatever files exist, leaves the checkpoint file as it found
\* it, overwrites the ledger file after each non-empty page, and stops at the
\* first empty page or the first failed fetch, which is not retried.
C12_AllCategories ==
  /\ InAll => statefile = startCkpt
  /\ (InAll /\ firstReq # 0) => firstReq = 1
  /\ (pc = "all_fetch" /\ lastReq = 0) => (tags = <<>> /\ seen = {} /\ page = 1)
  /\ pc = "all_advance" => (ledger = << JoinLines(tags) >> /\ tags = expected)
  /\ (InAll /\ lastStatus \in {"429", "error", "empty"}) => pc = "ended"
  /\ (InAll /\ pc = "ended") => lastStatus \in {"429", "error", "empty"}

C12_Witness ==
  /\ pc = "all_advance"
  /\ statefile = << <<2>> >>
  /\ lastReq = 1
  /\ acked # {}
  /\ Len(tags) = 1
  /\ acked \cap Range(tags) = {}
  /\ ledger = << JoinLines(tags) >>


\* every line of s is a line of t
AllLinesIn(s, t) == Range(s) \subseteq Range(t)

\* C13: the ledger file is written before the checkpoint file, so whenever a
\* readable checkpoint file exists, at any point where the process may be
\* killed, the ledger file holds the lines of every page before the
\* checkpoint's page.
C13_CheckpointCoveredByLedger ==
  /\ pc = "state_write" => ledger = << JoinLines(tags) >>
  /\ (statefile # <<>> /\ ~Unreadable(statefile)) => acked \subseteq Range(LoadTags(ledger))

\* C14: after a completed flush the ledger file equals the in-memory lines,
\* and a kill at any step of a flush leaves in the ledger file every line
\* that an earlier completed flush had written.
C14_FlushKeepsPersistedLines ==
  /\ pc = "state_open" => ledger = << JoinLines(tags) >>
  /\ (pc = "idle" /\ outcome = "killed") => AllLinesIn(persisted, LoadTags(ledger))


\* a request is issued
RequestStep == pc = "fetch" /\ pc' = "await"

\* C15: the requests of one run start at the loaded page; a request repeats
\* the page of the previous one exactly when that one was answered 429, and
\* otherwise asks for the next page, after a non-empty page has been processed
\* and saved; no page number is skipped or decreased.
C15_PageOrder ==
  [][RequestStep =>
       IF lastReq = 0
       THEN lastReq' = (IF startCkpt = <<>> THEN 1 ELSE startCkpt[1][1])
       ELSE IF lastStatus = "429"
       THEN lastReq' = lastReq
       ELSE /\ lastReq' = lastReq + 1
            /\ lastStatus = "data"
            /\ ledger = << JoinLines(tags) >>
            /\ statefile = << <<lastReq>> >>]_vars

C15_Witness ==
  /\ pc = "await"
  /\ lastStatus = "pending"
  /\ firstReq = 1
  /\ lastReq = 3
  /\ Len(tags) = 2


\* C16: within a run the in-memory lines before a step are a prefix of the
\* lines after it; a record adds at most one line, at the end, with its own
\* key, so the new lines of a page stand in the order of their records; the
\* lines loaded at start stand in the order of the file.
C16_AppendOnly ==
  /\ [][(pc \in LivePcs /\ pc' \in LivePcs \cup {"ended"}) => IsPrefix(tags, tags')]_vars
  /\ [][RecordStep =>
          \/ tags' = tags
          \/ /\ Len(tags') = Len(tags) + 1
             /\ KeyOf(tags'[Len(tags')]) = NameOf(data[idx])]_vars
  /\ [](pc = "fetch" /\ lastReq = 0 /\ ledger # <<>> =>
          JoinLines(tags) = Strip(ledger[1]))

C16_Witness ==
  /\ pc = "ledger_open"
  /\ outcome = "none"
  /\ Len(data) = 2
  /\ Len(tags) = 2
  /\ KeyOf(tags[1]) = NameOf(data[1])
  /\ KeyOf(tags[2]) = NameOf(data[2])


\* C17: without interrupt and transport error, if the server does not answer
\* 429 forever and its data ends, a run ends by exhaustion; a 429 answer
\* itself never ends the run nor moves the page: it is followed by the backoff
\* and a new request, without any limit on their number.
C17_Termination ==
  /\ (pc = "fetch") ~> (pc = "ended" /\ outcome = "exhausted")
  /\ [][(pc = "await" /\ lastStatus' = "429") =>
          (pc' = "backoff" /\ page' = page /\ outcome' = "none")]_vars
  /\ [][pc = "backoff" => (pc' = "fetch" /\ page' = page /\ outcome' = "none")]_vars

C17_Witness ==
  /\ pc = "ended"
  /\ outcome = "exhausted"
  /\ firstReq = 1
  /\ lastReq = MaxPage
  /\ page = MaxPage


\* C18: a 429 answer changes nothing but time: from the rate-limited request
\* to the moment the retry is issued the in-memory ledger, the seen set, the
\* page number, the ledger file and the checkpoint file stay as they are.
C18_RateLimitFrame ==
  [][(\/ pc = "await" /\ lastStatus' = "429"
      \/ pc = "backoff" /\ pc' = "fetch"
      \/ pc = "fetch" /\ lastStatus = "429" /\ pc' = "await") =>
       UNCHANGED <<tags, seen, page, ledger, statefile>>]_vars

C18_Witness ==
  /\ pc = "await"
  /\ lastStatus = "retry"
  /\ page = 2
  /\ Len(tags) = 1
  /\ seen # {}
  /\ ledger = << JoinLines(tags) >>
  /\ statefile = << <<1>> >>

\* the keys of a sequence of lines: the text before the first tab of a line,
\* or the whole line when it has no tab
KeysOfLines(lines) ==
  { IF TAB \in Range(l)
    THEN SubSeq(l, 1, (CHOOSE i \in 1..Len(l) : l[i] = TAB /\ \A j \in 1..(i - 1) : l[j] # TAB) - 1)
    ELSE l : l \in Range(lines) }

\* C19: at every page boundary of a run (after load, and after each page has
\* been processed) the seen set is exactly the set of keys of the ledger
\* lines, also when the ledger was loaded from a file written with the other
\* include_metadata setting.
C19_SeenCoherent ==
  (outcome = "none" /\ pc \in LoopPcs \ {"process"}) => seen = KeysOfLines(tags)

C19_Witness ==
  /\ pc = "advance"
  /\ ~include_metadata
  /\ Len(loaded) = 1
  /\ TAB \in Range(loaded[1])
  /\ Len(tags) = 2
  /\ TAB \notin Range(tags[2])
  /\ Cardinality(seen) = 2

====
